---- MODULE Spec2Model ----
(***************************************************************************)
(* Model of the news scraper of src/main.py and its poll driver            *)
(* src/cli.py: the concurrent fetch of feed and page sources, the dedup    *)
(* check against the seen_items table, the ranking, the summaries and the  *)
(* webhook post.                                                           *)
(*                                                                         *)
(* Text is modelled as a sequence of one-character strings, so slicing,    *)
(* concatenation and whitespace splitting are computed as Python computes  *)
(* them.  A datetime is an integer number of microseconds.                 *)
(***************************************************************************)
EXTENDS Integers, Sequences, FiniteSets, TLC

\* ------------------------------------------------------------------ text

Min(a, b) == IF a <= b THEN a ELSE b

Max(a, b) == IF a >= b THEN a ELSE b

\* s[:n] of Python, for n >= 0
Slice(s, n) == SubSeq(s, 1, Min(Len(s), n))

\* s[n:] of Python, for n >= 0
SliceFrom_Overlap(s, n) == SubSeq(s, Max(1, Min(Len(s), n)), Len(s))

SliceFrom(s, n) == SubSeq(s, Min(Len(s), n) + 1, Len(s))

\* code points of the characters the model uses
ord(c) ==
  CASE c = " " -> 32
    [] c = "1" -> 49
    [] c = "2" -> 50
    [] c = "a" -> 97
    [] c = "b" -> 98
    [] c = "c" -> 99
    [] c = "d" -> 100
    [] c = "f" -> 102
    [] c = "p" -> 112
    [] c = "u" -> 117
    [] c = "|" -> 124

\* Python's str comparison s < t: by code point, a proper prefix is smaller
RECURSIVE StrLess(_, _)
StrLess(s, t) ==
  IF t = <<>> THEN FALSE
  ELSE IF s = <<>> THEN TRUE
  ELSE IF ord(Head(s)) # ord(Head(t)) THEN ord(Head(s)) < ord(Head(t))
  ELSE StrLess(Tail(s), Tail(t))

\* str.split(): the whitespace-separated words of s, from position i on,
\* cur being the word read so far; as a set, which is all token_set_ratio uses
RECURSIVE SplitFrom(_, _, _)
SplitFrom(s, i, cur) ==
  IF i > Len(s) THEN (IF cur = <<>> THEN {} ELSE {cur})
  ELSE IF s[i] = " "
       THEN (IF cur = <<>> THEN {} ELSE {cur}) \cup SplitFrom(s, i + 1, <<>>)
       ELSE SplitFrom(s, i + 1, Append(cur, s[i]))

Tokens(s) == SplitFrom(s, 1, <<>>)

\* " ".join(sorted(S)) for a set S of words
RECURSIVE JoinSorted(_)
JoinSorted(S) ==
  IF S = {} THEN <<>>
  ELSE LET m == CHOOSE x \in S : \A y \in S : y = x \/ StrLess(x, y)
           rest == JoinSorted(S \ {m})
       IN IF rest = <<>> THEN m ELSE m \o <<" ">> \o rest

\* length of the longest common subsequence of s and t
RECURSIVE LCS(_, _)
LCS(s, t) ==
  IF s = <<>> \/ t = <<>> THEN 0
  ELSE IF Head(s) = Head(t) THEN 1 + LCS(Tail(s), Tail(t))
  ELSE Max(LCS(Tail(s), t), LCS(s, Tail(t)))

\* rapidfuzz Indel distance: insertions and deletions turning s into t
IndelDistance(s, t) == Len(s) + Len(t) - 2 * LCS(s, t)

\* rapidfuzz _norm_distance as a comparison: 100 - 100*dist/lensum > thresh,
\* the score being 100 when lensum = 0; integer arithmetic, no rounding
NormScoreExceeds(dist, lensum, thresh) ==
  IF lensum = 0 THEN 100 > thresh
  ELSE 100 * (lensum - dist) > thresh * lensum

\* token_set_ratio(s1, s2) > thresh  (rapidfuzz.fuzz, no processor)
TokenSetRatioExceeds(s1, s2, thresh) ==
  LET tokens_a == Tokens(s1)
      tokens_b == Tokens(s2)
      intersect == tokens_a \cap tokens_b
      diff_ab == JoinSorted(tokens_a \ tokens_b)
      diff_ba == JoinSorted(tokens_b \ tokens_a)
      ab_len == Len(diff_ab)
      ba_len == Len(diff_ba)
      sect_len == Len(JoinSorted(intersect))
      sep == IF sect_len # 0 THEN 1 ELSE 0
      sect_ab_len == sect_len + sep + ab_len
      sect_ba_len == sect_len + sep + ba_len
  IN IF tokens_a = {} \/ tokens_b = {} THEN 0 > thresh
     ELSE IF intersect # {} /\ (tokens_a \ tokens_b = {} \/ tokens_b \ tokens_a = {})
          THEN 100 > thresh
     ELSE \/ NormScoreExceeds(IndelDistance(diff_ab, diff_ba),
                              sect_ab_len + sect_ba_len, thresh)
          \/ /\ sect_len # 0
             /\ \/ NormScoreExceeds(sep + ab_len, sect_len + sect_ab_len, thresh)
                \/ NormScoreExceeds(sep + ba_len, sect_len + sect_ba_len, thresh)

\* ------------------------------------------------------------- datetime

MicrosPerSecond == 1000000

\* datetime.isoformat(): the text of a datetime t, as its fixed-width fields.
\* <<seconds>> when the microsecond is 0 (isoformat then omits the fraction),
\* <<seconds, microsecond>> otherwise
isoformat(t) ==
  IF t % MicrosPerSecond = 0 THEN << t \div MicrosPerSecond >>
  ELSE << t \div MicrosPerSecond, t % MicrosPerSecond >>

\* datetime.fromisoformat()
fromisoformat(s) ==
  s[1] * MicrosPerSecond + (IF Len(s) > 1 THEN s[2] ELSE 0)

\* Python's str comparison s < t on isoformat texts: field by field (the
\* fields are zero-padded to a fixed width), a proper prefix is smaller
RECURSIVE IsoLess(_, _)
IsoLess(s, t) ==
  IF t = <<>> THEN FALSE
  ELSE IF s = <<>> THEN TRUE
  ELSE IF Head(s) # Head(t) THEN Head(s) < Head(t)
  ELSE IsoLess(Tail(s), Tail(t))

TickMicros == MicrosPerSecond \div 2

\* the clock readings of the model: 0 .. MaxNow half-seconds
MaxNow == 2

Times == { k * TickMicros : k \in 0 .. MaxNow }

\* ----------------------------------------------------------------- state

VARIABLES
  CONF,        \* the parsed config/sources.yml: rss, html, feed_types
  ledger,      \* the rows of table seen_items of data/deals.sqlite
  now,         \* the clock datetime.utcnow() reads
  probe,       \* the last direct call of is_item_seen, << [item, result] >>, or << >>
  args,        \* main's arguments: dry_run, max_items, skip_summary
  pc,          \* where the driver and main() stand
  run,         \* the number of calls of main() so far
  tasks,       \* the fetch coroutines handed to asyncio.gather, in order
  results,     \* what asyncio.gather returned
  idx,         \* the index of main's loop over results
  rss_items,   \* main's rss_items
  html_items,  \* main's html_items
  all_new,     \* main's all_new
  trending,    \* main's trending
  others,      \* main's others
  summaries,   \* main's summaries, as the set of its (hash, summary) pairs
  si,          \* the index of main's loop over trending
  hi,          \* the index of post_to_discord's loop over WEBHOOKS
  posts,       \* the requests.post calls made, in order
  printed,     \* what the dry run printed
  log,         \* the records logged during this call of main()
  faults,      \* the failures the environment has produced so far
  surfaced     \* history: the items the earlier live runs surfaced, and when

seenvars == << probe >>

mainvars == << args, pc, run, tasks, results, idx, rss_items, html_items, all_new,
               trending, others, summaries, si, hi, posts, printed, log, faults,
               surfaced >>

vars == << CONF, ledger, now, seenvars, mainvars >>

\* ------------------------------------------------------------ Item, table

\* hashlib.md5(data.encode()).hexdigest(): a digest of the text, taken to
\* be free of collisions
md5(data) == << "md5", data >>

\* _calc_hash taking the body into the digest as well
_calc_hash_WithBody(kw) ==
  md5(kw.title \o <<"|">> \o kw.url \o <<"|">> \o
      (IF "body" \in DOMAIN kw THEN kw.body ELSE << >>))

\* Item._calc_hash over the keyword arguments kw of the constructor
_calc_hash(kw) == md5(kw.title \o <<"|">> \o kw.url)

\* Item(**kwargs): the dict of the keyword arguments, with attribute hash
Item(kw) == kw @@ ("hash" :> _calc_hash(kw))

\* a row of seen_items; hash is the PRIMARY KEY
Row(hash, type, title, posted_at, expires_at) ==
  [hash |-> hash, type |-> type, title |-> title,
   posted_at |-> posted_at, expires_at |-> expires_at]

DefaultThreshold == 90

\* the resolved category of a raw type (main.py line 81)
ResolveType(raw_type) ==
  IF raw_type \in DOMAIN CONF.feed_types THEN raw_type ELSE "political_news"

\* cfg.get("similarity_threshold", 90) for cfg = CONF["feed_types"].get(ft, {})
Threshold(ft) ==
  LET cfg == IF ft \in DOMAIN CONF.feed_types THEN CONF.feed_types[ft] ELSE << >>
  IN IF "similarity_threshold" \in DOMAIN cfg THEN cfg.similarity_threshold
     ELSE DefaultThreshold

\* SimilarTitles without the type=? condition
SimilarTitles_AnyType(conn, ft, hash) ==
  { r.title : r \in { x \in conn : x.hash # hash } }

\* SELECT title FROM seen_items WHERE type=? AND hash!=?
SimilarTitles(conn, ft, hash) ==
  { r.title : r \in { x \in conn : x.type = ft /\ x.hash # hash } }

\* is_item_seen without the `if now > expires` return
is_item_seen_NoExpiry(conn, item, t) ==
  LET ft == ResolveType(item.type)
      rows == { r \in conn : r.hash = item.hash }
  IN IF rows = {} THEN FALSE
     ELSE \E other_title \in SimilarTitles(conn, ft, item.hash) :
             TokenSetRatioExceeds(item.title, other_title, Threshold(ft))

\* is_item_seen(conn, item), t being the reading of utcnow() on its first line
is_item_seen(conn, item, t) ==
  LET ft == ResolveType(item.type)
      rows == { r \in conn : r.hash = item.hash }
  IN IF rows = {} THEN FALSE
     ELSE LET row == CHOOSE r \in rows : TRUE
          IN IF t > fromisoformat(row.expires_at) THEN FALSE
             ELSE \E other_title \in SimilarTitles(conn, ft, item.hash) :
                     TokenSetRatioExceeds(item.title, other_title, Threshold(ft))

\* ------------------------------------------------ is_item_seen on its own

\* feed_types of the configuration: one category with its own threshold,
\* one that takes the default
FeedTypes ==
  [political_news |-> [similarity_threshold |-> 60], gov |-> << >>]

T_ab == << "a", " ", "b" >>
T_ba == << "b", " ", "a" >>
T_ac == << "a", " ", "c" >>
U_1 == << "u", "1" >>
U_2 == << "u", "2" >>

ProbeTitles == { T_ab, T_ba, T_ac }
ProbeUrls == { U_1, U_2 }
ProbeTypes == { "political_news", "gov", "rss" }

ProbeRowTypes == { "political_news", "gov" }

\* the rows a table of the model is drawn from
ProbeRows ==
  { Row(_calc_hash([title |-> ti, url |-> u]), ty, ti, isoformat(0), isoformat(e)) :
      ti \in ProbeTitles, u \in ProbeUrls, ty \in ProbeRowTypes,
      e \in { TickMicros, 2 * TickMicros } }

\* the rows of a table of the model: at most MaxRows
MaxRows == 2

\* the tables of at most n rows
RECURSIVE TablesUpTo(_)
TablesUpTo(n) ==
  IF n = 0 THEN { {} }
  ELSE LET smaller == TablesUpTo(n - 1)
       IN smaller \cup
          UNION { { t \cup {r} : r \in { x \in ProbeRows : \A y \in t : y.hash # x.hash } } :
                  t \in smaller }

ProbeTables == TablesUpTo(MaxRows)

ProbeItems ==
  { Item([title |-> ti, url |-> u, body |-> << >>, source |-> "probe",
          type |-> ty, tags |-> << >>, fetched |-> isoformat(0)]) :
      ti \in ProbeTitles, u \in ProbeUrls, ty \in ProbeTypes }

InitSeen ==
  /\ CONF = [rss |-> << >>, html |-> << >>, feed_types |-> FeedTypes]
  /\ ledger \in ProbeTables
  /\ now = 0
  /\ probe = << >>
  /\ args = [dry_run |-> FALSE, max_items |-> << >>, skip_summary |-> FALSE]
  /\ pc = "off"
  /\ run = 0
  /\ tasks = << >>
  /\ results = << >>
  /\ idx = 0
  /\ rss_items = << >>
  /\ html_items = << >>
  /\ all_new = << >>
  /\ trending = << >>
  /\ others = << >>
  /\ summaries = {}
  /\ si = 0
  /\ hi = 0
  /\ posts = << >>
  /\ printed = << >>
  /\ log = {}
  /\ faults = 0
  /\ surfaced = << >>

\* a call is_item_seen(conn, item) on the table as it stands
SeenCall(item) ==
  /\ probe' = << [item |-> item, result |-> is_item_seen(ledger, item, now)] >>
  /\ UNCHANGED << CONF, ledger, now, mainvars >>

\* time passes
SeenTick ==
  /\ now + TickMicros \in Times
  /\ now' = now + TickMicros
  /\ probe' = << >>
  /\ UNCHANGED << CONF, ledger, mainvars >>

NextSeen ==
  \/ \E item \in ProbeItems : SeenCall(item)
  \/ SeenTick

SpecSeen == InitSeen /\ [][NextSeen]_vars

\* ---------------------------------------------------- the configuration

T_cd == << "c", " ", "d" >>

SrcF1 == [name |-> << "f", "1" >>, url |-> << "w", "f", "1" >>, tags |-> << "t" >>]
SrcF2 == [name |-> << "f", "2" >>, url |-> << "w", "f", "2" >>]
SrcP1 == [name |-> << "p", "1" >>, url |-> << "w", "p", "1" >>, selector |-> "x",
          type |-> "gov", tags |-> << "t" >>]
SrcP2 == [name |-> << "p", "2" >>, url |-> << "w", "p", "2" >>, selector |-> "y"]

\* the configurations of the model: two of three sources, one of a single
\* feed
Configs ==
  { [rss |-> << SrcF1, SrcF2 >>, html |-> << SrcP1 >>, feed_types |-> FeedTypes],
    [rss |-> << SrcF1 >>, html |-> << SrcP1, SrcP2 >>, feed_types |-> FeedTypes],
    [rss |-> << SrcF2 >>, html |-> << >>, feed_types |-> FeedTypes] }

\* WEBHOOKS, from the environment
WEBHOOKS == << "hook1", "hook2" >>

\* src.get(key, default)
SrcGet(src, key, default) == IF key \in DOMAIN src THEN src[key] ELSE default

\* ------------------------------------------------- what the sources serve

Entry(title, link, summary) == [title |-> title, link |-> link, summary |-> summary]

Element(cls, alt, text, anchors) ==
  [cls |-> cls, alt |-> alt, text |-> text, anchors |-> anchors]

\* the document behind each source URL: the entries of a feed, the elements
\* of a page (class, alt attribute, stripped text, hrefs of its anchors)
Remote(url) ==
  CASE url = SrcF1.url ->
         << Entry(T_ab, U_1, << "b", "1" >>), Entry(T_ac, U_2, << >>) >>
    [] url = SrcF2.url ->
         << Entry(T_ab, U_1, << "b", "2" >>), Entry(T_ba, << >>, << "b" >>) >>
    [] url = SrcP1.url ->
         << Element("x", T_ba, << "c" >>, << U_2 >>),
            Element("y", << >>, T_ac, << >>),
            Element("x", << >>, T_cd, << U_1, U_2 >>),
            Element("x", << >>, << >>, << >>),
            Element("x", T_ab, << "d" >>, << U_2 >>) >>
    [] url = SrcP2.url ->
         << Element("x", T_ab, << >>, << U_1 >>),
            Element("y", << >>, T_ba, << U_1 >>) >>

\* the ticks of the clock during one synchronous step of the program
MaxStepTicks == 1

\* the nondecreasing sequences of k clock readings from t0 on, none later
\* than tmax
RECURSIVE StampsWithin(_, _, _)
StampsWithin(k, t0, tmax) ==
  IF k = 0 THEN { << >> }
  ELSE UNION { { << t >> \o st : st \in StampsWithin(k - 1, t, tmax) } :
               t \in { x \in Times : x >= t0 /\ x <= tmax } }

\* the readings of the clock by k successive calls of utcnow() in one step
StampSeqs(k, t0) == StampsWithin(k, t0, t0 + MaxStepTicks * TickMicros)

\* the clock after the readings st
ClockAfter(st) == IF st = << >> THEN now ELSE st[Len(st)]

\* ------------------------------------------------------------ the fetchers

FeedCap == 20
TitleCap == 120
BodyCap == 300

\* the entries fetch_feed makes items of: the first 20, less those without
\* a title or a link
FeedEntries(doc) ==
  SelectSeq(Slice(doc, FeedCap),
            LAMBDA e : Slice(e.title, TitleCap) # << >> /\ e.link # << >>)

\* the items fetch_feed returns for a parsed feed, st[i] being the clock
\* reading of the i-th Item(...)
FeedItems(src, doc, st) ==
  [ i \in 1 .. Len(FeedEntries(doc)) |->
      LET e == FeedEntries(doc)[i]
      IN Item([title |-> Slice(e.title, TitleCap),
               url |-> e.link,
               body |-> Slice(e.summary, BodyCap),
               source |-> src.name,
               type |-> "rss",
               tags |-> SrcGet(src, "tags", << >>),
               fetched |-> isoformat(st[i])]) ]

\* soup.select(src["selector"])
Select(html, selector) == SelectSeq(html, LAMBDA el : el.cls = selector)

\* parse_html(src, html), st[i] being the clock reading of the i-th Item(...)
parse_html(src, html, st) ==
  [ i \in 1 .. Len(Select(html, src.selector)) |->
      LET el == Select(html, src.selector)[i]
          title == IF el.alt # << >> THEN el.alt
                   ELSE IF el.text # << >> THEN el.text ELSE src.name
      IN Item([title |-> Slice(title, TitleCap),
               url |-> IF el.anchors # << >> THEN el.anchors[1] ELSE src.url,
               body |-> Slice(el.text, BodyCap),
               source |-> src.name,
               type |-> SrcGet(src, "type", "html"),
               tags |-> SrcGet(src, "tags", << >>),
               fetched |-> isoformat(st[i])]) ]

\* what a coroutine hands to gather: a value, or the exception it raised
Returned(value) == [exc |-> FALSE, value |-> value, error |-> "none"]
Raised(error) == [exc |-> TRUE, value |-> << >>, error |-> error]

Task(kind, src) ==
  [kind |-> kind, src |-> src, state |-> "pending", attempts |-> 0,
   last |-> "none", result |-> Returned(<< >>)]

\* the ways a request fails: a 4xx status, a timeout
Failures == { "http4xx", "timeout" }

\* the operations (the fetch of a source, a summary, a delivery) that fail in
\* one behaviour of the model; the retries of a failing fetch count with it
MaxFaults == 1

LogRecord(level, what, who) == [level |-> level, what |-> what, who |-> who]

\* --------------------------------------------------------- main(), fetch

\* the calls of main() in one behaviour of the model
MaxRuns == 2

RetryAttempts == 3

TopN == 6

\* the rows the table may hold when the program starts: the item of the
\* first feed entry, and a page item whose title has the same words
MainRows ==
  { Row(_calc_hash([title |-> T_ab, url |-> U_1]), "political_news", T_ab,
        isoformat(0), isoformat(TickMicros)),
    Row(_calc_hash([title |-> T_ba, url |-> U_2]), "political_news", T_ba,
        isoformat(0), isoformat(2 * TickMicros)) }

MainTables == SUBSET MainRows

InitMain ==
  /\ CONF \in Configs
  /\ ledger \in MainTables
  /\ now = 0
  /\ probe = << >>
  /\ args \in [dry_run : BOOLEAN, max_items : { << >> }, skip_summary : BOOLEAN]
  /\ pc = "idle"
  /\ run = 0
  /\ tasks = << >>
  /\ results = << >>
  /\ idx = 0
  /\ rss_items = << >>
  /\ html_items = << >>
  /\ all_new = << >>
  /\ trending = << >>
  /\ others = << >>
  /\ summaries = {}
  /\ si = 0
  /\ hi = 0
  /\ posts = << >>
  /\ printed = << >>
  /\ log = {}
  /\ faults = 0
  /\ surfaced = << >>

\* main() is called: lines 209-217, the table is opened and the coroutines
\* are made
main_start ==
  /\ pc = "idle"
  /\ run < MaxRuns
  /\ run' = run + 1
  /\ tasks' = [i \in 1 .. Len(CONF.rss) |-> Task("rss", CONF.rss[i])]
              \o [j \in 1 .. Len(CONF.html) |-> Task("html", CONF.html[j])]
  /\ results' = << >>
  /\ idx' = 0
  /\ rss_items' = << >>
  /\ html_items' = << >>
  /\ all_new' = << >>
  /\ trending' = << >>
  /\ others' = << >>
  /\ summaries' = {}
  /\ si' = 0
  /\ hi' = 0
  /\ posts' = << >>
  /\ printed' = << >>
  /\ log' = {}
  /\ pc' = "gather"
  /\ UNCHANGED << CONF, ledger, now, probe, args, faults, surfaced >>

UnchangedAfterFetch ==
  UNCHANGED << CONF, ledger, probe, args, pc, run, results, idx, rss_items,
               html_items, all_new, trending, others, summaries, si, hi, posts,
               printed, surfaced >>

\* coroutine i ends with `result`, its last request having ended in `outcome`
Finish(i, outcome, result) ==
  [tasks EXCEPT ![i].state = "done", ![i].attempts = @ + 1, ![i].last = outcome,
                ![i].result = result]

\* fetch_feed(src, client) runs from its await to its return, the request
\* ending in `outcome`
fetch_feed(i, outcome) ==
  /\ pc = "gather"
  /\ tasks[i].kind = "rss"
  /\ tasks[i].state = "pending"
  /\ outcome # "xml" => faults < MaxFaults
  /\ faults' = IF outcome = "xml" THEN faults ELSE faults + 1
  /\ LET src == tasks[i].src
         doc == Remote(src.url)
     IN CASE outcome \in { "xml", "bozo" } ->
               /\ \E st \in StampSeqs(Len(FeedEntries(doc)), now) :
                     /\ tasks' = Finish(i, outcome, Returned(FeedItems(src, doc, st)))
                     /\ now' = ClockAfter(st)
               /\ log' = IF outcome = "bozo"
                         THEN log \cup { LogRecord("warning", "Malformed feed", src.name) }
                         ELSE log
          [] outcome = "nonxml" ->
               /\ tasks' = Finish(i, outcome, Returned(<< >>))
               /\ log' = log \cup { LogRecord("warning", "Skipping non-XML feed", src.name) }
               /\ now' = now
          [] outcome \in Failures ->
               /\ tasks' = Finish(i, outcome, Returned(<< >>))
               /\ log' = log \cup { LogRecord("error", "Error fetching RSS", src.name) }
               /\ now' = now
  /\ UnchangedAfterFetch

\* one attempt of fetch_html_content(url, client) under its retry decorator:
\* any exception is retried until the third attempt, whose exception is
\* re-raised to gather; time passes during the wait before a retry
fetch_html_content(i, outcome) ==
  /\ pc = "gather"
  /\ tasks[i].kind = "html"
  /\ tasks[i].state = "pending"
  /\ (outcome # "ok" /\ tasks[i].attempts = 0) => faults < MaxFaults
  /\ faults' = IF outcome # "ok" /\ tasks[i].attempts = 0 THEN faults + 1 ELSE faults
  /\ IF outcome = "ok"
     THEN /\ tasks' = Finish(i, outcome, Returned(Remote(tasks[i].src.url)))
          /\ now' = now
     ELSE IF tasks[i].attempts + 1 >= RetryAttempts
     THEN /\ tasks' = Finish(i, outcome, Raised(outcome))
          /\ now' = now
     ELSE /\ tasks' = [tasks EXCEPT ![i].attempts = @ + 1, ![i].last = outcome]
          /\ now' \in { t \in Times : t >= now }
  /\ log' = log
  /\ UnchangedAfterFetch

gather_return_FirstCompleted ==
  /\ pc = "gather"
  /\ \E i \in 1 .. Len(tasks) : tasks[i].state = "done"
  /\ results' = [i \in 1 .. Len(tasks) |-> tasks[i].result]
  /\ idx' = 1
  /\ pc' = IF Len(tasks) = 0 THEN "rank" ELSE "split"
  /\ UNCHANGED << CONF, ledger, now, probe, args, run, tasks, rss_items, html_items,
                  all_new, trending, others, summaries, si, hi, posts, printed,
                  log, faults, surfaced >>

\* asyncio.gather(..., return_exceptions=True) returns once every coroutine
\* has returned or raised: lines 220-227
gather_return ==
  /\ pc = "gather"
  /\ \A i \in 1 .. Len(tasks) : tasks[i].state = "done"
  /\ results' = [i \in 1 .. Len(tasks) |-> tasks[i].result]
  /\ idx' = 1
  /\ pc' = IF Len(tasks) = 0 THEN "rank" ELSE "split"
  /\ UNCHANGED << CONF, ledger, now, probe, args, run, tasks, rss_items, html_items,
                  all_new, trending, others, summaries, si, hi, posts, printed,
                  log, faults, surfaced >>

\* [i for i in items if not is_item_seen(conn, i)], st[k] being the clock
\* reading of the k-th call
RECURSIVE NotSeen(_, _)
NotSeen(items, st) ==
  IF items = << >> THEN << >>
  ELSE (IF is_item_seen(ledger, Head(items), Head(st)) THEN << >> ELSE << Head(items) >>)
       \o NotSeen(Tail(items), Tail(st))

split_step_ShiftsPastFailed ==
  /\ pc = "split"
  /\ idx <= Len(results)
  /\ LET res == results[idx]
         n_rss == Len(SelectSeq(tasks, LAMBDA t : t.kind = "rss"))
     IN IF res.exc
        THEN UNCHANGED << rss_items, html_items, now >>
        ELSE IF idx <= n_rss
        THEN /\ \E st \in StampSeqs(Len(res.value), now) :
                   /\ rss_items' = rss_items \o NotSeen(res.value, st)
                   /\ now' = ClockAfter(st)
             /\ UNCHANGED html_items
        ELSE LET src == CONF.html[Cardinality({ j \in n_rss + 1 .. idx : ~results[j].exc })]
                 k == Len(Select(res.value, src.selector))
             IN /\ \E st \in StampSeqs(2 * k, now) :
                      /\ html_items' =
                           html_items \o NotSeen(parse_html(src, res.value, SubSeq(st, 1, k)),
                                                 SubSeq(st, k + 1, 2 * k))
                      /\ now' = ClockAfter(st)
                /\ UNCHANGED rss_items
  /\ idx' = idx + 1
  /\ pc' = IF idx = Len(results) THEN "rank" ELSE "split"
  /\ UNCHANGED << CONF, ledger, probe, args, run, tasks, results, all_new, trending,
                  others, summaries, si, hi, posts, printed, log, faults, surfaced >>

\* one pass of the loop of lines 228-235
split_step ==
  /\ pc = "split"
  /\ idx <= Len(results)
  /\ LET res == results[idx]
         n_rss == Len(SelectSeq(tasks, LAMBDA t : t.kind = "rss"))
     IN IF res.exc
        THEN UNCHANGED << rss_items, html_items, now >>
        ELSE IF idx <= n_rss
        THEN /\ \E st \in StampSeqs(Len(res.value), now) :
                   /\ rss_items' = rss_items \o NotSeen(res.value, st)
                   /\ now' = ClockAfter(st)
             /\ UNCHANGED html_items
        ELSE LET src == CONF.html[idx - n_rss]
                 k == Len(Select(res.value, src.selector))
             IN /\ \E st \in StampSeqs(2 * k, now) :
                      /\ html_items' =
                           html_items \o NotSeen(parse_html(src, res.value, SubSeq(st, 1, k)),
                                                 SubSeq(st, k + 1, 2 * k))
                      /\ now' = ClockAfter(st)
                /\ UNCHANGED rss_items
  /\ idx' = idx + 1
  /\ pc' = IF idx = Len(results) THEN "rank" ELSE "split"
  /\ UNCHANGED << CONF, ledger, probe, args, run, tasks, results, all_new, trending,
                  others, summaries, si, hi, posts, printed, log, faults, surfaced >>

\* ------------------------------------------- main(), rank to publication

\* sorted(..., reverse=True) keeps equal keys in their original order: x goes
\* behind every element whose key is not smaller than its own
InsertDesc_TiesReversed(x, sorted) ==
  LET before == SelectSeq(sorted, LAMBDA y : IsoLess(x.fetched, y.fetched))
  IN before \o << x >> \o SubSeq(sorted, Len(before) + 1, Len(sorted))

InsertDesc(x, sorted) ==
  LET before == SelectSeq(sorted, LAMBDA y : ~IsoLess(y.fetched, x.fetched))
  IN before \o << x >> \o SubSeq(sorted, Len(before) + 1, Len(sorted))

\* sorted(items, key=lambda i: i["fetched"], reverse=True)
RECURSIVE SortedDesc(_)
SortedDesc(items) ==
  IF items = << >> THEN << >>
  ELSE InsertDesc(items[Len(items)], SortedDesc(SubSeq(items, 1, Len(items) - 1)))

\* a dict as the set of its (key, value) pairs
DictSet(d, k, v) == { kv \in d : kv[1] # k } \cup { << k, v >> }

DictGet(d, k, default) ==
  IF \E kv \in d : kv[1] = k THEN (CHOOSE kv \in d : kv[1] = k)[2] ELSE default

\* lines 237-246
main_rank ==
  /\ pc = "rank"
  /\ LET ranked == SortedDesc(rss_items \o html_items)
         limited == IF args.max_items # << >> /\ args.max_items[1] # 0
                    THEN Slice(ranked, args.max_items[1] * 2) ELSE ranked
     IN /\ all_new' = limited
        /\ trending' = Slice(limited, TopN)
        /\ others' = SliceFrom(limited, TopN)
        /\ pc' = IF args.skip_summary \/ limited = << >> THEN "output" ELSE "summarize"
  /\ si' = 1
  /\ UNCHANGED << CONF, ledger, now, probe, args, run, tasks, results, idx, rss_items,
                  html_items, summaries, hi, posts, printed, log, faults, surfaced >>

\* what the summarization service answers for a text
summarize(text) == << "summary", text >>

SummaryFailed == << "(summary failed)", << >> >>
NoSummary == << "(no summary)", << >> >>
EmptySummary == << "", << >> >>

\* one pass of the loop of lines 251-256, the call of summarize returning
\* (ok) or raising
summarize_step(ok) ==
  /\ pc = "summarize"
  /\ si <= Len(trending)
  /\ ~ok => faults < MaxFaults
  /\ faults' = IF ok THEN faults ELSE faults + 1
  /\ LET item == trending[si]
     IN /\ summaries' = DictSet(summaries, item.hash,
                                IF ok THEN summarize(item.body) ELSE SummaryFailed)
        /\ log' = IF ok THEN log
                  ELSE log \cup { LogRecord("error", "Summarize error", item.url) }
  /\ si' = si + 1
  /\ pc' = IF si = Len(trending) THEN "output" ELSE "summarize"
  /\ UNCHANGED << CONF, ledger, now, probe, args, run, tasks, results, idx, rss_items,
                  html_items, all_new, trending, others, hi, posts, printed, surfaced >>

\* the embed post_to_discord builds: lines 179-198
Payload(pairs, rest) ==
  [title |-> << Len(pairs), Len(rest) >>,
   fields |-> [i \in 1 .. Len(pairs) |->
                 [hot |-> TRUE, name |-> pairs[i][1].title,
                  value |-> << pairs[i][2], pairs[i][1].url >>]]
              \o [i \in 1 .. Len(rest) |->
                    [hot |-> FALSE, name |-> rest[i].title,
                     value |-> << EmptySummary, rest[i].url >>]]]

\* lines 258-275: the dry run prints and returns; the live run calls
\* post_to_discord when there is anything to post
main_output_PostsAlways ==
  /\ pc = "output"
  /\ IF args.dry_run
     THEN /\ printed' =
               [i \in 1 .. Len(trending) |->
                  << trending[i].title, DictGet(summaries, trending[i].hash, NoSummary),
                     trending[i].url >>]
               \o [i \in 1 .. Len(others) |-> << others[i].title, others[i].url >>]
          /\ pc' = "done"
     ELSE /\ printed' = printed
          /\ pc' = IF WEBHOOKS # << >> THEN "post" ELSE "done"
  /\ hi' = 1
  /\ UNCHANGED << CONF, ledger, now, probe, args, run, tasks, results, idx, rss_items,
                  html_items, all_new, trending, others, summaries, si, posts, log,
                  faults, surfaced >>

main_output_IgnoresDryRun ==
  /\ pc = "output"
  /\ printed' =
       IF args.dry_run
       THEN [i \in 1 .. Len(trending) |->
               << trending[i].title, DictGet(summaries, trending[i].hash, NoSummary),
                  trending[i].url >>]
            \o [i \in 1 .. Len(others) |-> << others[i].title, others[i].url >>]
       ELSE printed
  /\ pc' = IF (trending # << >> \/ others # << >>) /\ WEBHOOKS # << >>
           THEN "post" ELSE "done"
  /\ hi' = 1
  /\ UNCHANGED << CONF, ledger, now, probe, args, run, tasks, results, idx, rss_items,
                  html_items, all_new, trending, others, summaries, si, posts, log,
                  faults, surfaced >>

main_output ==
  /\ pc = "output"
  /\ IF args.dry_run
     THEN /\ printed' =
               [i \in 1 .. Len(trending) |->
                  << trending[i].title, DictGet(summaries, trending[i].hash, NoSummary),
                     trending[i].url >>]
               \o [i \in 1 .. Len(others) |-> << others[i].title, others[i].url >>]
          /\ pc' = "done"
     ELSE /\ printed' = printed
          /\ pc' = IF (trending # << >> \/ others # << >>) /\ WEBHOOKS # << >>
                   THEN "post" ELSE "done"
  /\ hi' = 1
  /\ UNCHANGED << CONF, ledger, now, probe, args, run, tasks, results, idx, rss_items,
                  html_items, all_new, trending, others, summaries, si, posts, log,
                  faults, surfaced >>

post_hook_StopsOnRaise(outcome) ==
  /\ pc = "post"
  /\ hi <= Len(WEBHOOKS)
  /\ outcome # "204" => faults < MaxFaults
  /\ faults' = IF outcome = "204" THEN faults ELSE faults + 1
  /\ posts' = Append(posts,
       [hook |-> WEBHOOKS[hi],
        payload |-> Payload([i \in 1 .. Len(trending) |->
                               << trending[i],
                                  DictGet(summaries, trending[i].hash, EmptySummary) >>],
                            others)])
  /\ log' = CASE outcome = "204" -> log
              [] outcome = "status" -> log \cup { LogRecord("error", "Post failed", WEBHOOKS[hi]) }
              [] outcome = "raise" -> log \cup { LogRecord("error", "Discord post error", WEBHOOKS[hi]) }
  /\ hi' = hi + 1
  /\ pc' = IF hi = Len(WEBHOOKS) \/ outcome = "raise" THEN "done" ELSE "post"
  /\ UNCHANGED << CONF, ledger, now, probe, args, run, tasks, results, idx, rss_items,
                  html_items, all_new, trending, others, summaries, si, printed, surfaced >>

\* one pass of the loop of lines 199-206: requests.post answers 204, another
\* status, or raises
post_hook(outcome) ==
  /\ pc = "post"
  /\ hi <= Len(WEBHOOKS)
  /\ outcome # "204" => faults < MaxFaults
  /\ faults' = IF outcome = "204" THEN faults ELSE faults + 1
  /\ posts' = Append(posts,
       [hook |-> WEBHOOKS[hi],
        payload |-> Payload([i \in 1 .. Len(trending) |->
                               << trending[i],
                                  DictGet(summaries, trending[i].hash, EmptySummary) >>],
                            others)])
  /\ log' = CASE outcome = "204" -> log
              [] outcome = "status" -> log \cup { LogRecord("error", "Post failed", WEBHOOKS[hi]) }
              [] outcome = "raise" -> log \cup { LogRecord("error", "Discord post error", WEBHOOKS[hi]) }
  /\ hi' = hi + 1
  /\ pc' = IF hi = Len(WEBHOOKS) THEN "done" ELSE "post"
  /\ UNCHANGED << CONF, ledger, now, probe, args, run, tasks, results, idx, rss_items,
                  html_items, all_new, trending, others, summaries, si, printed, surfaced >>

\* cli.run: main() has returned, time.sleep(args.interval * 60), and round
\* the loop; `surfaced` keeps what a live run surfaced and the clock then
time_sleep ==
  /\ pc = "done"
  /\ run < MaxRuns
  /\ now' \in { t \in Times : t >= now }
  /\ surfaced' = IF args.dry_run THEN surfaced
                 ELSE << [hashes |-> { all_new[i].hash : i \in 1 .. Len(all_new) },
                          at |-> now] >>
  /\ pc' = "idle"
  /\ UNCHANGED << CONF, ledger, probe, args, run, tasks, results, idx, rss_items,
                  html_items, all_new, trending, others, summaries, si, hi, posts,
                  printed, log, faults >>

Next ==
  \/ main_start
  \/ \E i \in 1 .. Len(tasks) :
        \E outcome \in { "xml", "bozo", "nonxml" } \cup Failures : fetch_feed(i, outcome)
  \/ \E i \in 1 .. Len(tasks) :
        \E outcome \in { "ok" } \cup Failures : fetch_html_content(i, outcome)
  \/ gather_return
  \/ split_step
  \/ main_rank
  \/ \E ok \in BOOLEAN : summarize_step(ok)
  \/ main_output
  \/ \E outcome \in { "204", "status", "raise" } : post_hook(outcome)
  \/ time_sleep

Spec == InitMain /\ [][Next]_vars

\* ------------------------------------------------- the ranking on its own

\* the longest list the ranking is tried on
MaxRankItems == 7

\* the i-th item of a list to rank, fetched at t; its body tells it apart
RankItem(i, t) ==
  Item([title |-> T_ab, url |-> IF i % 2 = 0 THEN U_2 ELSE U_1,
        body |-> [j \in 1 .. i |-> "b"], source |-> SrcF1.name,
        type |-> IF i % 2 = 0 THEN "rss" ELSE "gov", tags |-> << >>,
        fetched |-> isoformat(t)])

InitRank ==
  /\ CONF \in Configs
  /\ ledger = {}
  /\ now = 0
  /\ probe = << >>
  /\ args = [dry_run |-> FALSE, max_items |-> << >>, skip_summary |-> TRUE]
  /\ pc = "rank"
  /\ run = 1
  /\ tasks = << >>
  /\ results = << >>
  /\ idx = 0
  /\ \E n \in 0 .. MaxRankItems : \E st \in [1 .. n -> Times] :
        /\ rss_items = [i \in 1 .. n \div 2 |-> RankItem(i, st[i])]
        /\ html_items = [i \in 1 .. n - n \div 2 |->
                           RankItem(n \div 2 + i, st[n \div 2 + i])]
  /\ all_new = << >>
  /\ trending = << >>
  /\ others = << >>
  /\ summaries = {}
  /\ si = 0
  /\ hi = 0
  /\ posts = << >>
  /\ printed = << >>
  /\ log = {}
  /\ faults = 0
  /\ surfaced = << >>

SpecRank == InitRank /\ [][main_rank]_vars

\* --------------------------------------------- the Item constructor on its own

\* the items made in one behaviour
MaxMade == 2

\* the keyword arguments the constructor is tried on
ItemArgs ==
  [title : { T_ab, T_ac }, url : { U_1, U_2 }, body : { << >>, << "b" >> },
   source : { SrcF1.name }, type : { "rss", "gov" }, tags : { << >> },
   fetched : { isoformat(0), isoformat(TickMicros) }]

InitItem ==
  /\ CONF \in Configs
  /\ ledger = {}
  /\ now = 0
  /\ probe = << >>
  /\ args = [dry_run |-> FALSE, max_items |-> << >>, skip_summary |-> FALSE]
  /\ pc = "make"
  /\ run = 0
  /\ tasks = << >>
  /\ results = << >>
  /\ idx = 0
  /\ rss_items = << >>
  /\ html_items = << >>
  /\ all_new = << >>
  /\ trending = << >>
  /\ others = << >>
  /\ summaries = {}
  /\ si = 0
  /\ hi = 0
  /\ posts = << >>
  /\ printed = << >>
  /\ log = {}
  /\ faults = 0
  /\ surfaced = << >>

\* Item(**kw) is constructed and kept
make_item(kw) ==
  /\ pc = "make"
  /\ Len(rss_items) < MaxMade
  /\ rss_items' = Append(rss_items, Item(kw))
  /\ UNCHANGED << CONF, ledger, now, probe, args, pc, run, tasks, results, idx,
                  html_items, all_new, trending, others, summaries, si, hi, posts,
                  printed, log, faults, surfaced >>

NextItem == \E kw \in ItemArgs : make_item(kw)

SpecItem == InitItem /\ [][NextItem]_vars

\* ------------------------------ main() up to the ranking, on its own

\* one call of main(), with the arguments cli.run gives it when it posts
InitFetch ==
  /\ InitMain
  /\ args = [dry_run |-> FALSE, max_items |-> << >>, skip_summary |-> FALSE]

NextFetch ==
  \/ main_start
  \/ \E i \in 1 .. Len(tasks) :
        \E outcome \in { "xml", "bozo", "nonxml" } \cup Failures : fetch_feed(i, outcome)
  \/ \E i \in 1 .. Len(tasks) :
        \E outcome \in { "ok" } \cup Failures : fetch_html_content(i, outcome)
  \/ gather_return
  \/ split_step

SpecFetch == InitFetch /\ [][NextFetch]_vars

\* ------------------------------- main() from the ranking on, on its own

\* the surviving items of a run, n of them, all fetched at t
InitPublish ==
  /\ CONF \in Configs
  /\ ledger = {}
  /\ now \in Times
  /\ probe = << >>
  /\ args \in [dry_run : BOOLEAN, max_items : { << >> }, skip_summary : BOOLEAN]
  /\ pc = "rank"
  /\ run = 1
  /\ tasks = << >>
  /\ results = << >>
  /\ idx = 0
  /\ \E n \in 0 .. MaxRankItems :
        /\ rss_items = [i \in 1 .. n \div 2 |-> RankItem(i, now)]
        /\ html_items = [i \in 1 .. n - n \div 2 |-> RankItem(n \div 2 + i, now)]
  /\ all_new = << >>
  /\ trending = << >>
  /\ others = << >>
  /\ summaries = {}
  /\ si = 0
  /\ hi = 0
  /\ posts = << >>
  /\ printed = << >>
  /\ log = {}
  /\ faults = 0
  /\ surfaced = << >>

NextPublish ==
  \/ main_rank
  \/ \E ok \in BOOLEAN : summarize_step(ok)
  \/ main_output
  \/ \E outcome \in { "204", "status", "raise" } : post_hook(outcome)

SpecPublish == InitPublish /\ [][NextPublish]_vars

\* ------------------------------------------- claims about is_item_seen

Probed == probe # << >>

\* the row of the probed item, when the table has one
OwnRows == { r \in ledger : r.hash = probe[1].item.hash }

Unexpired(r) == now <= fromisoformat(r.expires_at)

\* row r holds a title that scores above the threshold of the probed item's
\* category, under another hash
SimilarRow(r) ==
  /\ r.hash # probe[1].item.hash
  /\ TokenSetRatioExceeds(probe[1].item.title, r.title,
                          Threshold(ResolveType(probe[1].item.type)))

SameCategory(r) == ResolveType(r.type) = ResolveType(probe[1].item.type)

\* C3 (as claimed): an item whose fingerprint has an unexpired row is
\* reported seen, whatever else the table holds
C3_ExactMatchSuppressed ==
  (Probed /\ \E r \in OwnRows : Unexpired(r)) => probe[1].result = TRUE

\* C4 (as claimed): an item without a row of its own is reported seen when an
\* unexpired row of its category holds a title scoring above the threshold
C4_NearDuplicateSuppressed ==
  (Probed /\ OwnRows = {}
     /\ \E r \in ledger : SameCategory(r) /\ Unexpired(r) /\ SimilarRow(r))
  => probe[1].result = TRUE

\* C5: an item whose own row expired strictly before now is reported not
\* seen, whatever other rows the table holds
C5_ExpiredResurfaces ==
  (Probed /\ \E r \in OwnRows : fromisoformat(r.expires_at) < now)
  => probe[1].result = FALSE

\* C5's case: the own row has expired while an unexpired row of the same
\* category holds a similar title, and the item is reported not seen
C5_Witness ==
  /\ Probed
  /\ \E r \in OwnRows : fromisoformat(r.expires_at) < now
  /\ \E r \in ledger : SameCategory(r) /\ Unexpired(r) /\ SimilarRow(r)
  /\ probe[1].result = FALSE

\* C6 (as claimed): expired rows are inert in the similarity scan: the answer
\* is the one the table gives without its expired rows of other fingerprints
C6_ExpiredRowsInert ==
  Probed =>
    probe[1].result =
      is_item_seen({ r \in ledger : r.hash = probe[1].item.hash \/ Unexpired(r) },
                   probe[1].item, now)

\* C7: rows of another category never make an item seen: the answer is the
\* one the table gives without its rows of other categories, and every
\* suppression has a similar row of the item's own category
C7_CrossCategoryIsolation ==
  Probed =>
    /\ probe[1].result =
         is_item_seen({ r \in ledger : r.hash = probe[1].item.hash \/ SameCategory(r) },
                      probe[1].item, now)
    /\ probe[1].result = TRUE =>
         \E r \in ledger : r.type = ResolveType(probe[1].item.type) /\ SimilarRow(r)

\* C7's case: the item has an unexpired row, a row of another category holds
\* the identical title under another fingerprint, and the item is not seen
C7_Witness ==
  /\ Probed
  /\ \E r \in OwnRows : Unexpired(r) /\ SameCategory(r)
  /\ \E r \in ledger : /\ r.hash # probe[1].item.hash
                       /\ r.title = probe[1].item.title
                       /\ ~SameCategory(r)
  /\ probe[1].result = FALSE

\* ------------------------------------------------- claims about main()

Hashes(items) == { items[i].hash : i \in 1 .. Len(items) }

\* a live call of main() has returned
LiveRunDone == pc = "done" /\ ~args.dry_run

\* C1 (as claimed): a live run that follows a live run, with no time gone
\* by since, surfaces none of the items the earlier run surfaced
C1_SecondRunSuppresses ==
  (LiveRunDone /\ surfaced # << >> /\ now = surfaced[1].at)
  => Hashes(all_new) \cap surfaced[1].hashes = {}

\* C2 (as claimed): when a live run has returned, every item it surfaced,
\* head and tail, has a row in the table under its fingerprint
C2_SurfacedItemsRecorded ==
  LiveRunDone => \A h \in Hashes(all_new) : \E r \in ledger : r.hash = h

\* C8: items made with the same title and url have the same fingerprint,
\* whatever their other fields
C8_FingerprintStable ==
  \A i, j \in 1 .. Len(rss_items) :
     (rss_items[i].title = rss_items[j].title /\ rss_items[i].url = rss_items[j].url)
     => rss_items[i].hash = rss_items[j].hash

\* C8's case: two items of equal title and url, made with different bodies
\* and at different times, carry one fingerprint
C8_Witness ==
  \E i, j \in 1 .. Len(rss_items) :
     /\ rss_items[i].title = rss_items[j].title
     /\ rss_items[i].url = rss_items[j].url
     /\ rss_items[i].body # rss_items[j].body
     /\ rss_items[i].fetched # rss_items[j].fetched
     /\ rss_items[i].type # rss_items[j].type
     /\ rss_items[i].hash = rss_items[j].hash

\* the source of coroutine i failed for good with a 4xx answer
PermanentlyFailed(i) == tasks[i].state = "done" /\ tasks[i].last = "http4xx"

Succeeded(i) == tasks[i].state = "done" /\ tasks[i].last \in { "xml", "ok" }

\* title and url of the items source i serves
Served(i) ==
  IF tasks[i].kind = "rss"
  THEN LET es == FeedEntries(Remote(tasks[i].src.url))
       IN { << tasks[i].src.name, es[k].title, es[k].link >> : k \in 1 .. Len(es) }
  ELSE LET items == parse_html(tasks[i].src, Remote(tasks[i].src.url),
                               [k \in 1 .. Len(Remote(tasks[i].src.url)) |-> 0])
       IN { << tasks[i].src.name, items[k].title, items[k].url >> : k \in 1 .. Len(items) }

Keys(items) == { << items[i].source, items[i].title, items[i].url >> : i \in 1 .. Len(items) }

\* the failed sources the run has put on record: the error records of
\* fetch_feed, the only ones a failed source leaves
FailedSourcesRecorded ==
  Cardinality({ r \in log : r.level = "error" /\ r.what = "Error fetching RSS" })

\* the run surfaced what the sources other than i serve, the table being
\* empty: nothing more and nothing less
SurfacedAllBut(i) ==
  Keys(all_new) = UNION { Served(j) : j \in (1 .. Len(tasks)) \ {i} }

\* the case of C9: of three sources one failed for good, the others answered
OneOfThreeFailed(i) ==
  /\ pc \in { "summarize", "output", "post", "done" }
  /\ Len(tasks) = 3
  /\ PermanentlyFailed(i)
  /\ \A j \in (1 .. Len(tasks)) \ {i} : Succeeded(j)

\* C9 (as claimed): with one of three sources failing for good, the run
\* surfaces exactly what the other two serve (nothing being suppressed) and
\* puts one failed source on record
C9_PartialSourceFailure ==
  \A i \in 1 .. Len(tasks) :
     (OneOfThreeFailed(i) /\ ledger = {})
     => (SurfacedAllBut(i) /\ FailedSourcesRecorded = 1)

\* the half of C9 the code keeps: the other two sources' items are surfaced
C9_OthersSurfaced ==
  \A i \in 1 .. Len(tasks) :
     (OneOfThreeFailed(i) /\ ledger = {}) => SurfacedAllBut(i)

\* main_rank has run in this call of main()
Ranked == pc \in { "summarize", "output", "post", "done" }

\* the list main_rank ranks
RankInput == rss_items \o html_items

Count(items, x) == Cardinality({ i \in 1 .. Len(items) : items[i] = x })

\* the first place of x in items
PlaceIn(items, x) == CHOOSE i \in 1 .. Len(items) :
                       items[i] = x /\ \A j \in 1 .. i - 1 : items[j] # x

FetchedAt(item) == fromisoformat(item.fetched)

\* C10: the ranked list is a permutation of the surviving items, in
\* descending order of the fetched time, items of equal time in the order
\* they had before
C10_RankedStable ==
  Ranked =>
    /\ Len(all_new) = Len(RankInput)
    /\ \A i \in 1 .. Len(RankInput) :
          Count(all_new, RankInput[i]) = Count(RankInput, RankInput[i])
    /\ \A i, j \in 1 .. Len(all_new) :
          i < j => /\ FetchedAt(all_new[i]) >= FetchedAt(all_new[j])
                   /\ (FetchedAt(all_new[i]) = FetchedAt(all_new[j])
                       /\ all_new[i] # all_new[j])
                      => PlaceIn(RankInput, all_new[i]) < PlaceIn(RankInput, all_new[j])

\* C10's case: a list with two items of equal time and a later item behind
\* an earlier one has been ranked
C10_Witness ==
  /\ Ranked
  /\ \E i, j \in 1 .. Len(RankInput) :
        i < j /\ FetchedAt(RankInput[i]) = FetchedAt(RankInput[j])
  /\ \E i, j \in 1 .. Len(RankInput) :
        i < j /\ FetchedAt(RankInput[i]) < FetchedAt(RankInput[j])
  /\ all_new # RankInput

\* C11: max_items being unset, the head is the first min(6, n) items of the
\* ranked list and the tail is the rest: head and tail share no place of the
\* list and hold every surviving item as often as it survived, the head has
\* at most 6 items, and the tail is empty when fewer than 6 survive
C11_HeadTailPartition ==
  (Ranked /\ args.max_items = << >>) =>
    /\ Len(trending) = Min(6, Len(all_new))
    /\ trending = SubSeq(all_new, 1, Len(trending))
    /\ others = SubSeq(all_new, Len(trending) + 1, Len(all_new))
    /\ trending \o others = all_new
    /\ \A i \in 1 .. Len(RankInput) :
          Count(trending, RankInput[i]) + Count(others, RankInput[i])
            = Count(RankInput, RankInput[i])
    /\ Len(trending) <= 6
    /\ Len(RankInput) < 6 => (others = << >> /\ trending = all_new)

\* C11's case: more than 6 items survived, the head holds 6 of them and the
\* tail the seventh
C11_Witness ==
  /\ Ranked
  /\ args.max_items = << >>
  /\ Len(RankInput) > 6
  /\ Len(trending) = 6
  /\ others # << >>

\* ------------------------------------------------ claims about the fetchers

\* the fetch of source i has ended and its last attempt ended in `outcome`
EndedIn(i, outcome) == tasks[i].state = "done" /\ tasks[i].last = outcome

\* the items the run has from source i
ItemsOf(i) ==
  SelectSeq(rss_items \o html_items, LAMBDA it : it.source = tasks[i].src.name)

\* C12 (as claimed): a fetch, of a feed or of a page, is never attempted more
\* than 3 times, and one that gave up on a transient failure had 3 attempts
C12_BoundedRetryBothKinds ==
  \A i \in 1 .. Len(tasks) :
     /\ tasks[i].attempts <= 3
     /\ EndedIn(i, "timeout") => tasks[i].attempts = 3

\* the part of C12 the code keeps: no fetch has more than 3 attempts, a page
\* that gave up had 3, and a source that gave up has no item in the run
C12_PagesBounded ==
  \A i \in 1 .. Len(tasks) :
     /\ tasks[i].attempts <= 3
     /\ (tasks[i].kind = "html" /\ tasks[i].state = "done" /\ tasks[i].last \in Failures)
        => tasks[i].attempts = 3
     /\ (pc # "gather" /\ tasks[i].last \in Failures) => ItemsOf(i) = << >>

\* C13 (as claimed): no attempt follows an attempt that ended in a 4xx
\* answer: while the fetches run, a source whose last attempt was answered
\* 4xx is not attempted again
C13_NoRetryOnPermanent ==
  [][ \A i \in 1 .. Len(tasks) :
        (pc = "gather" /\ tasks[i].last = "http4xx")
        => tasks'[i].attempts = tasks[i].attempts ]_vars

\* the part of C13 the code keeps: a feed answered 4xx had one attempt, a
\* source that ended on a 4xx has no item in the run, and the run goes on
C13_FeedsOnce ==
  \A i \in 1 .. Len(tasks) :
     /\ (tasks[i].kind = "rss" /\ tasks[i].last = "http4xx")
        => (tasks[i].attempts = 1 /\ tasks[i].state = "done" /\ ~tasks[i].result.exc)
     /\ (pc # "gather" /\ tasks[i].last = "http4xx") => ItemsOf(i) = << >>

\* -------------------------------------------- claims about publication

\* post_to_discord has been called in this call of main()
Publishing == pc = "post" \/ posts # << >>

\* C14: in a run in which no item survived, post_to_discord is not called
\* and nothing fails after the ranking: the run goes from the ranking to its
\* return
C14_EmptyRunNoOp ==
  (Ranked /\ RankInput = << >>) =>
    /\ ~Publishing
    /\ pc \in { "output", "done" }
    /\ \A r \in log : r.what \notin { "Summarize error", "Post failed", "Discord post error" }

\* C14's case: a live run in which no item survived has returned
C14_Witness ==
  /\ pc = "done"
  /\ ~args.dry_run
  /\ RankInput = << >>
  /\ posts = << >>

\* the hooks the deliveries so far went to, in the order they were made
Delivered == [k \in 1 .. Len(posts) |-> posts[k].hook]

\* the delivery to hook k failed: another status than 204, or an exception
DeliveryFailed(k) ==
  \E r \in log : r.what \in { "Post failed", "Discord post error" } /\ r.who = WEBHOOKS[k]

\* C15: in a call of post_to_discord the deliveries made so far went to the
\* first endpoints of the list, one each and in list order, whatever the
\* earlier ones answered; when the call is over every endpoint has had its
\* one delivery, and main() returns
C15_PerEndpointDelivery ==
  /\ Len(posts) <= Len(WEBHOOKS)
  /\ Delivered = SubSeq(WEBHOOKS, 1, Len(posts))
  /\ pc = "post" => (hi = Len(posts) + 1 /\ hi <= Len(WEBHOOKS))
  /\ (pc = "done" /\ Publishing) => Delivered = WEBHOOKS

\* C15's case: the delivery to the first endpoint raised, the second endpoint
\* had its delivery all the same, and main() has returned
C15_Witness ==
  /\ pc = "done"
  /\ Delivered = WEBHOOKS
  /\ LogRecord("error", "Discord post error", WEBHOOKS[1]) \in log
  /\ ~DeliveryFailed(2)

\* C16: a call of main() with dry_run set makes no delivery and never enters
\* post_to_discord, whatever was fetched and however the summaries went
C16_DryRunNeverPublishes ==
  args.dry_run => (posts = << >> /\ pc # "post")

\* C16's case: a dry run with items in head and tail, one of whose summaries
\* failed, has printed them and returned
C16_Witness ==
  /\ args.dry_run
  /\ pc = "done"
  /\ trending # << >>
  /\ others # << >>
  /\ Len(printed) = Len(trending) + Len(others)
  /\ \E r \in log : r.what = "Summarize error"
  /\ posts = << >>

\* ------------------------------------- claims about the fetch and split

\* coroutine i has neither returned nor raised
Outstanding(i) == tasks[i].state # "done"

\* the loop that calls is_item_seen has begun in this call of main()
DedupBegun == pc = "split" \/ idx >= 1 \/ rss_items # << >> \/ html_items # << >>

\* C17: is_item_seen is not called while a fetch is outstanding: once the
\* loop that calls it has begun, every coroutine has returned or raised and
\* the results are those of the coroutines, in whatever order they ended
C17_JoinBarrier ==
  /\ (\E i \in 1 .. Len(tasks) : Outstanding(i)) => (pc = "gather" /\ ~DedupBegun)
  /\ DedupBegun => /\ Len(results) = Len(tasks)
                   /\ \A i \in 1 .. Len(tasks) :
                         ~Outstanding(i) /\ results[i] = tasks[i].result

\* C17's case: the dedup loop is at its first result, one coroutine having
\* raised after its retries and another having returned items
C17_Witness ==
  /\ pc = "split"
  /\ idx = 1
  /\ \E i \in 1 .. Len(tasks) : tasks[i].result.exc /\ tasks[i].attempts = 3
  /\ \E i \in 1 .. Len(tasks) : ~tasks[i].result.exc /\ tasks[i].result.value # << >>

Key(item) == << item.source, item.title, item.url >>

\* the slots of the sources of one kind whose coroutine returned
Answered(kind) ==
  { j \in 1 .. Len(tasks) : tasks[j].kind = kind /\ tasks[j].state = "done"
                                                /\ ~tasks[j].result.exc }

\* the loop of lines 228-235 is over
SplitDone == pc = "rank" \/ Ranked

\* C19: whatever order the fetches ended in and whichever failed, every item
\* taken from a page result is what the selector of that page's own source
\* finds in that page, under that source's name and type, and every feed
\* item is an entry of its own feed, of type rss; a source that failed leaves
\* no item, and with nothing suppressed every source that answered has all
\* its items in the list of its kind
C19_ResultAlignment ==
  /\ \A k \in 1 .. Len(html_items) :
        \E j \in Answered("html") :
           /\ Key(html_items[k]) \in Served(j)
           /\ html_items[k].type = SrcGet(tasks[j].src, "type", "html")
  /\ \A k \in 1 .. Len(rss_items) :
        \E j \in Answered("rss") :
           /\ Key(rss_items[k]) \in Served(j)
           /\ rss_items[k].type = "rss"
  /\ SplitDone =>
        \A j \in 1 .. Len(tasks) :
           /\ tasks[j].result.exc => ItemsOf(j) = << >>
           /\ (ledger = {} /\ j \in Answered("html")) => Served(j) \subseteq Keys(html_items)
           /\ (ledger = {} /\ j \in Answered("rss") /\ tasks[j].result.value # << >>)
              => Served(j) \subseteq Keys(rss_items)

\* C19's case: of two pages behind a feed the first failed after its
\* retries; the items of the second page are there, found with its own
\* selector, beside those of the feed
C19_Witness ==
  /\ SplitDone
  /\ Len(CONF.html) = 2
  /\ tasks[Len(CONF.rss) + 1].result.exc
  /\ Len(CONF.rss) + 2 \in Answered("html")
  /\ html_items # << >>
  /\ \A k \in 1 .. Len(html_items) : html_items[k].source = CONF.html[2].name
  /\ rss_items # << >>

\* ------------------------------------- claims about the summaries

\* the loop of lines 251-256 has run and is over
SummariesDone == pc \in { "output", "post", "done" } /\ ~args.skip_summary

\* the summary main() pairs with head item i for the publisher: line 273
HeadSummary(i) == DictGet(summaries, trending[i].hash, EmptySummary)

SummarizeErrors == { r \in log : r.what = "Summarize error" }

Placeholders == { i \in 1 .. Len(trending) : HeadSummary(i) = SummaryFailed }

\* summarize was called for head items only, 6 times at most, and every head
\* item is paired with the summary of its own body or with the placeholder;
\* every failed call left its item with the placeholder, and no more items
\* have the placeholder than calls failed
Absorbed ==
  /\ si - 1 = Len(trending)
  /\ si - 1 <= 6
  /\ { kv[1] : kv \in summaries } \subseteq Hashes(trending)
  /\ \A i \in 1 .. Len(trending) :
        HeadSummary(i) \in { summarize(trending[i].body), SummaryFailed }
  /\ \A r \in SummarizeErrors :
        \E i \in Placeholders : trending[i].url = r.who
  /\ Cardinality(Placeholders) <= Cardinality(SummarizeErrors)

\* C18 (as claimed): a summary that raises is absorbed: the failed head item
\* goes to the publisher with the placeholder, and every other head item
\* with its own summary
C18_SummaryFailureAbsorbed ==
  (SummariesDone /\ SummarizeErrors # {}) => Absorbed

\* the part of C18 the code keeps: the same, for a head whose items have
\* fingerprints of their own
C18_DistinctHeadAbsorbed ==
  (SummariesDone /\ \A i, j \in 1 .. Len(trending) :
                       i # j => trending[i].hash # trending[j].hash)
  => Absorbed

\* ------------------------------------- claims about the output of a run

\* what a run puts out: head, then tail
Output == trending \o others

\* C20 (as claimed): no two items of the output of a run have the same
\* fingerprint
C20_NoDuplicateInRun ==
  Ranked => \A i, j \in 1 .. Len(Output) : i < j => Output[i].hash # Output[j].hash

====
